---------------------------- MODULE Spec2Model ----------------------------
(***************************************************************************)
(* Model of src/src/lib.rs of tinytowns: the 4x4 Board with its checked    *)
(* placement operations, the eight-fold orientation generator              *)
(* Building::rotations and the placement enumerator Building::patterns.    *)
(***************************************************************************)
EXTENDS Integers, Sequences, FiniteSets

VARIABLES
    board,      \* Board.board: the 16 cells, indexed 0..15
    call,       \* the last placement call made on the board and its arguments
    result,     \* what that call returned, or how it ended
    index,      \* <<i>> for the usize index i that call computed, <<>> if none
    calls,      \* number of placement calls made so far
    building,   \* the Building patterns() runs on
    pc,         \* position inside patterns(): "start", "loop" or "done";
                \* "idle" and "roundtrip" where patterns() is not running
    orient,     \* the HashSet returned by self.rotations()
    todo,       \* the orientations the for loop has not visited yet
    possibles,  \* the Vec of placement templates built so far
    tmpl,       \* the template a round trip places on a fresh board
    k           \* number of entries of tmpl the round trip has handled

vars == <<board, call, result, index, calls, building, pc, orient, todo,
          possibles, tmpl, k>>

boardVars == <<board, call, result, index>>
enumVars  == <<building, pc, orient, todo, possibles>>

---------------------------------------------------------------------------
(* Constants and value types                                               *)

BOARD_WIDTH == 4
BOARD_HEIGHT == 4

\* u8 values are 0 .. U8 - 1
U8 == 256

\* Number of placement calls a behaviour of SpecBoard makes.
MaxCalls == 2

Resource == {"Brick", "Glass", "Stone", "Wheat", "Wood"}
Building == {"Well", "Theater", "TradingPost"}

\* Option<Piece>
None == [kind |-> "None", of |-> "None"]
Cube(resource) == [kind |-> "Cube", of |-> resource]
Structure(b) == [kind |-> "Structure", of |-> b]

\* Length of the array Board.board
BoardLen == BOARD_WIDTH * BOARD_HEIGHT

\* Board::new
Board_new == [i \in 0..(BoardLen - 1) |-> None]

NoCall == [op |-> "none", x |-> 0, y |-> 0, arg |-> "None"]

\* The u8 arguments the model calls the placement operations with: every
\* valid index, the first value past the board, and the largest u8.
Coords == (0..BOARD_WIDTH) \cup {U8 - 1}

InBounds(x, y) == x \in 0..(BOARD_WIDTH - 1) /\ y \in 0..(BOARD_HEIGHT - 1)

---------------------------------------------------------------------------
(* Board                                                                   *)

\* Mutant of get_board_index: the row stride is forgotten.
get_board_index_sum(x, y) == (x + y) % U8

\* x * BOARD_WIDTH + y in u8 arithmetic, as a release build computes it
get_board_index(x, y) == (x * BOARD_WIDTH + y) % U8

\* The builds' outcomes of that arithmetic: exact when it fits in a u8;
\* otherwise a debug build panics and a release build wraps.
IndexArith(x, y) ==
    IF x * BOARD_WIDTH + y < U8 THEN {"exact"} ELSE {"panic", "wrap"}

get_piece(x, y) == board[get_board_index(x, y)]

\* Mutant of place_piece: the occupancy check is missing.
place_piece_overwrite(x, y, resource) ==
    /\ call' = [op |-> "place_piece", x |-> x, y |-> y, arg |-> resource]
    /\ IF x > BOARD_WIDTH \/ y > BOARD_HEIGHT
       THEN /\ result' = "OutOfBounds"
            /\ index' = <<>>
            /\ board' = board
       ELSE /\ index' = <<get_board_index(x, y)>>
            /\ IF index'[1] >= BoardLen
               THEN /\ result' = "PanicIndex"
                    /\ board' = board
               ELSE /\ result' = "Ok"
                    /\ board' = [board EXCEPT ![index'[1]] = Cube(resource)]

place_piece(x, y, resource) ==
    /\ call' = [op |-> "place_piece", x |-> x, y |-> y, arg |-> resource]
    /\ IF x > BOARD_WIDTH \/ y > BOARD_HEIGHT
       THEN /\ result' = "OutOfBounds"
            /\ index' = <<>>
            /\ board' = board
       ELSE \E arith \in IndexArith(x, y) :
            IF arith = "panic"
            THEN /\ result' = "PanicOverflow"
                 /\ index' = <<>>
                 /\ board' = board
            ELSE /\ index' = <<get_board_index(x, y)>>
                 /\ IF index'[1] >= BoardLen
                    THEN /\ result' = "PanicIndex"
                         /\ board' = board
                    ELSE IF board[index'[1]] # None
                    THEN /\ result' = "Occupied"
                         /\ board' = board
                    ELSE /\ result' = "Ok"
                         /\ board' = [board EXCEPT ![index'[1]] = Cube(resource)]

place_brick(x, y) == place_piece(x, y, "Brick")
place_glass(x, y) == place_piece(x, y, "Glass")
place_stone(x, y) == place_piece(x, y, "Stone")
place_wheat(x, y) == place_piece(x, y, "Wheat")
place_wood(x, y) == place_piece(x, y, "Wood")

\* Mutant of place_building: the occupancy check is missing.
place_building_overwrite(x, y, b) ==
    /\ call' = [op |-> "place_building", x |-> x, y |-> y, arg |-> b]
    /\ IF x > BOARD_WIDTH \/ y > BOARD_HEIGHT
       THEN /\ result' = "OutOfBounds"
            /\ index' = <<>>
            /\ board' = board
       ELSE /\ index' = <<get_board_index(x, y)>>
            /\ IF index'[1] >= BoardLen
               THEN /\ result' = "PanicIndex"
                    /\ board' = board
               ELSE /\ result' = "Ok"
                    /\ board' = [board EXCEPT ![index'[1]] = Structure(b)]

place_building(x, y, b) ==
    /\ call' = [op |-> "place_building", x |-> x, y |-> y, arg |-> b]
    /\ IF x > BOARD_WIDTH \/ y > BOARD_HEIGHT
       THEN /\ result' = "OutOfBounds"
            /\ index' = <<>>
            /\ board' = board
       ELSE \E arith \in IndexArith(x, y) :
            IF arith = "panic"
            THEN /\ result' = "PanicOverflow"
                 /\ index' = <<>>
                 /\ board' = board
            ELSE /\ index' = <<get_board_index(x, y)>>
                 /\ IF index'[1] >= BoardLen
                    THEN /\ result' = "PanicIndex"
                         /\ board' = board
                    ELSE IF board[index'[1]] # None
                    THEN /\ result' = "Occupied"
                         /\ board' = board
                    ELSE /\ result' = "Ok"
                         /\ board' = [board EXCEPT ![index'[1]] = Structure(b)]

\* A panic ends the thread that owns the board.
aborted == result \in {"PanicIndex", "PanicOverflow"}

InitBoard ==
    /\ board = Board_new
    /\ call = NoCall
    /\ result = "None"
    /\ index = <<>>
    /\ calls = 0
    /\ building = "None"
    /\ pc = "idle"
    /\ orient = {}
    /\ todo = {}
    /\ possibles = <<>>
    /\ tmpl = <<>>
    /\ k = 0

\* The owner of the board makes one more placement call.
CanCall == ~aborted /\ calls < MaxCalls
Called == calls' = calls + 1 /\ UNCHANGED <<enumVars, tmpl, k>>

PlaceBrick ==
    CanCall /\ Called /\ \E x \in Coords, y \in Coords : place_brick(x, y)
PlaceGlass ==
    CanCall /\ Called /\ \E x \in Coords, y \in Coords : place_glass(x, y)
PlaceStone ==
    CanCall /\ Called /\ \E x \in Coords, y \in Coords : place_stone(x, y)
PlaceWheat ==
    CanCall /\ Called /\ \E x \in Coords, y \in Coords : place_wheat(x, y)
PlaceWood ==
    CanCall /\ Called /\ \E x \in Coords, y \in Coords : place_wood(x, y)
PlaceBuilding ==
    CanCall /\ Called /\ \E x \in Coords, y \in Coords, b \in Building :
                            place_building(x, y, b)

NextBoard ==
    \/ PlaceBrick
    \/ PlaceGlass
    \/ PlaceStone
    \/ PlaceWheat
    \/ PlaceWood
    \/ PlaceBuilding

SpecBoard == InitBoard /\ [][NextBoard]_vars

---------------------------------------------------------------------------
(* Pattern and Building                                                    *)

\* An Option<Resource> cell of a pattern is a Resource or "None".

RECURSIVE MaxLen(_)
\* coords.iter().map(|line| line.len()).max()
MaxLen(coords) ==
    IF Len(coords) = 1 THEN Len(coords[1])
    ELSE LET rest == MaxLen(Tail(coords))
         IN  IF Len(coords[1]) > rest THEN Len(coords[1]) ELSE rest

\* Pattern::new
Pattern_new(coords) ==
    [coords |-> coords, width |-> MaxLen(coords), height |-> Len(coords)]

\* Building::pattern
pattern(b) ==
    CASE b = "Well" -> Pattern_new(<< <<"Wood", "Stone">> >>)
      [] b = "Theater" ->
            Pattern_new(<< <<"None", "Stone", "None">>,
                           <<"Wood", "Glass", "Wood">> >>)
      [] b = "TradingPost" ->
            Pattern_new(<< <<"Stone", "Wood", "None">>,
                           <<"Stone", "Wood", "Brick">> >>)

\* Iterator::rev on a sequence
Rev(s) == [i \in 1..Len(s) |-> s[Len(s) + 1 - i]]

\* rows.map(|line| line.iter().rev().collect())
RevEach(rows) == [i \in 1..Len(rows) |-> Rev(rows[i])]

\* The grid built by the double loop of rotations(): row `width` holds
\* coords[height][width] for every height.
Rotation(p) ==
    [w \in 1..p.width |-> [h \in 1..p.height |-> p.coords[h][w]]]

\* Mutant of RotationsOf: the four 90 degree options are never inserted.
RotationsOf_unrotated(p) ==
    { Pattern_new(p.coords),
      Pattern_new(Rev(p.coords)),
      Pattern_new(RevEach(p.coords)),
      Pattern_new(RevEach(Rev(p.coords))) }

\* Mutant of RotationsOf: the last insert is missing.
RotationsOf_seven(p) ==
    LET rotation == Rotation(p)
    IN  { Pattern_new(p.coords),
          Pattern_new(Rev(p.coords)),
          Pattern_new(RevEach(p.coords)),
          Pattern_new(RevEach(Rev(p.coords))),
          Pattern_new(rotation),
          Pattern_new(Rev(rotation)),
          Pattern_new(RevEach(rotation)) }

\* The body of Building::rotations, run on the pattern p.
RotationsOf(p) ==
    LET rotation == Rotation(p)
    IN  { Pattern_new(p.coords),
          Pattern_new(Rev(p.coords)),
          Pattern_new(RevEach(p.coords)),
          Pattern_new(RevEach(Rev(p.coords))),
          Pattern_new(rotation),
          Pattern_new(Rev(rotation)),
          Pattern_new(RevEach(rotation)),
          Pattern_new(RevEach(Rev(rotation))) }

\* Building::rotations
rotations(b) == RotationsOf(pattern(b))

---------------------------------------------------------------------------
(* Building::patterns                                                      *)

RECURSIVE Flatten(_)
\* pattern.coords.iter().flatten()
Flatten(rows) == IF rows = <<>> THEN <<>> ELSE Head(rows) \o Flatten(Tail(rows))

\* One run of the two innermost loops at the anchor (curr_x, curr_y): every
\* push takes the next value of the cyclic iterator, which stands at offset
\* cursor of the flattened cells when the run starts.
possible(p, curr_x, curr_y, cursor) ==
    LET flat == Flatten(p.coords)
    IN  [n \in 1..(p.height * p.width) |->
            [c |-> << curr_x + ((n - 1) % p.width),
                      curr_y + ((n - 1) \div p.width) >>,
             r |-> flat[((cursor + n - 1) % Len(flat)) + 1]]]

\* Mutant of advance: a run takes only one row of values from the iterator.
advance_row(p, cursor) ==
    (cursor + p.width) % Len(Flatten(p.coords))

\* Where the cyclic iterator stands after that run.
advance(p, cursor) ==
    (cursor + p.height * p.width) % Len(Flatten(p.coords))

\* Mutant of x_exceeds: the pattern's height is used for its width.
x_exceeds_by_height(p, curr_x) == curr_x + (p.height - 1) >= BOARD_WIDTH

\* Mutant of y_exceeds: the comparison is off by one.
y_exceeds_off_by_one(p, curr_y) == curr_y + (p.height - 1) > BOARD_HEIGHT

\* The guards that break out of the two anchor loops.
x_exceeds(p, curr_x) == curr_x + (p.width - 1) >= BOARD_WIDTH
y_exceeds(p, curr_y) == curr_y + (p.height - 1) >= BOARD_HEIGHT

RECURSIVE scan_y(_, _, _, _)
\* for curr_y in curr_y..BOARD_HEIGHT at a fixed curr_x: the templates pushed
\* and the iterator's offset afterwards.
scan_y(p, curr_x, curr_y, cursor) ==
    IF curr_y >= BOARD_HEIGHT \/ y_exceeds(p, curr_y)
    THEN [out |-> <<>>, cursor |-> cursor]
    ELSE LET rest == scan_y(p, curr_x, curr_y + 1, advance(p, cursor))
         IN  [out |-> <<possible(p, curr_x, curr_y, cursor)>> \o rest.out,
              cursor |-> rest.cursor]

RECURSIVE scan_x(_, _, _)
\* for curr_x in curr_x..BOARD_WIDTH: the templates pushed for one pattern.
scan_x(p, curr_x, cursor) ==
    IF curr_x >= BOARD_WIDTH \/ x_exceeds(p, curr_x)
    THEN <<>>
    ELSE LET col == scan_y(p, curr_x, 0, cursor)
         IN  col.out \o scan_x(p, curr_x + 1, col.cursor)

\* One iteration of `for pattern in self.rotations()`: a fresh cyclic
\* iterator, then the anchor loops.
templates_of(p) == scan_x(p, 0, 0)

InitPatterns ==
    /\ building \in Building
    /\ pc = "start"
    /\ orient = {}
    /\ todo = {}
    /\ possibles = <<>>
    /\ board = Board_new
    /\ call = NoCall
    /\ result = "None"
    /\ index = <<>>
    /\ calls = 0
    /\ tmpl = <<>>
    /\ k = 0

\* let mut possibles = Vec::new(); self.rotations()
Start ==
    /\ pc = "start"
    /\ orient' = rotations(building)
    /\ todo' = orient'
    /\ possibles' = <<>>
    /\ pc' = "loop"
    /\ UNCHANGED <<building, boardVars, calls, tmpl, k>>

\* One iteration of the loop over the HashSet, whose order is unspecified.
ForPattern ==
    /\ pc = "loop"
    /\ \E p \in todo :
        /\ possibles' = possibles \o templates_of(p)
        /\ todo' = todo \ {p}
    /\ pc' = IF todo' = {} THEN "done" ELSE "loop"
    /\ UNCHANGED <<building, orient, boardVars, calls, tmpl, k>>

NextPatterns ==
    \/ Start
    \/ ForPattern

SpecPatterns == InitPatterns /\ [][NextPatterns]_vars

---------------------------------------------------------------------------
(* Round trip: one template of patterns() placed on a fresh board          *)

Range(f) == {f[i] : i \in DOMAIN f}

\* The elements of the Vec Building::patterns returns; their order in the
\* Vec follows the HashSet's iteration order.
patterns(b) == UNION {Range(templates_of(p)) : p \in rotations(b)}

InitRoundTrip ==
    /\ building \in Building
    /\ tmpl \in patterns(building)
    /\ k = 0
    /\ board = Board_new
    /\ call = NoCall
    /\ result = "None"
    /\ index = <<>>
    /\ calls = 0
    /\ pc = "roundtrip"
    /\ orient = {}
    /\ todo = {}
    /\ possibles = <<>>

\* The next entry of the template is a gap: nothing is placed.
SkipGap ==
    /\ ~aborted
    /\ k < Len(tmpl)
    /\ tmpl[k + 1].r = "None"
    /\ k' = k + 1
    /\ UNCHANGED <<boardVars, calls, enumVars, tmpl>>

\* The next entry requires a resource: its cube is placed.
PlaceEntry ==
    /\ ~aborted
    /\ k < Len(tmpl)
    /\ tmpl[k + 1].r # "None"
    /\ place_piece(tmpl[k + 1].c[1], tmpl[k + 1].c[2], tmpl[k + 1].r)
    /\ k' = k + 1
    /\ calls' = calls + 1
    /\ UNCHANGED <<enumVars, tmpl>>

NextRoundTrip ==
    \/ SkipGap
    \/ PlaceEntry

SpecRoundTrip == InitRoundTrip /\ [][NextRoundTrip]_vars

---------------------------------------------------------------------------
(* Properties of the Board, under SpecBoard                                *)

\* The piece a successful call stores.
Placed(c) == IF c.op = "place_building" THEN Structure(c.arg) ELSE Cube(c.arg)

Cells == DOMAIN Board_new
Occupied == {i \in Cells : board[i] # None}

\* C1: every placement call with x >= 4 or y >= 4 returns Err(OutOfBounds)
\* and leaves all 16 cells unchanged.
C1_OutOfBoundsRejected ==
    [][(call'.x >= BOARD_WIDTH \/ call'.y >= BOARD_HEIGHT)
          => (result' = "OutOfBounds" /\ board' = board)]_vars

\* C2: a placement call on an in-bounds (x, y) whose cell holds a Piece
\* returns Err(Occupied) and changes no cell of the board.
C2_OccupiedRejected ==
    [][(InBounds(call'.x, call'.y) /\ get_piece(call'.x, call'.y) # None)
          => (result' = "Occupied" /\ board' = board)]_vars

\* C2 witness: a call on an occupied in-bounds cell has returned Occupied.
C2_Witness ==
    /\ result = "Occupied"
    /\ InBounds(call.x, call.y)
    /\ get_piece(call.x, call.y) # None
    /\ get_piece(call.x, call.y) # Placed(call)

\* C3: a placement call on an in-bounds (x, y) whose cell is empty returns
\* Ok; afterwards get_piece(x, y) is the piece placed, get_piece is
\* unchanged at every other in-bounds coordinate, and exactly one of the 16
\* cells has changed.
C3_PlaceStoresOnlyThere ==
    [][(InBounds(call'.x, call'.y) /\ get_piece(call'.x, call'.y) = None)
          => /\ result' = "Ok"
             /\ board'[get_board_index(call'.x, call'.y)] = Placed(call')
             /\ \A a \in 0..(BOARD_WIDTH - 1), b \in 0..(BOARD_HEIGHT - 1) :
                    <<a, b>> # <<call'.x, call'.y>>
                        => board'[get_board_index(a, b)] = get_piece(a, b)
             /\ Cardinality({i \in Cells : board'[i] # board[i]}) = 1]_vars

\* C3 witness: a cube was placed on an empty in-bounds cell of a board that
\* already held another piece.
C3_Witness ==
    /\ result = "Ok"
    /\ call.op = "place_piece"
    /\ InBounds(call.x, call.y)
    /\ get_piece(call.x, call.y) = Cube(call.arg)
    /\ Cardinality(Occupied) = 2

\* C4: a cell changes only from empty to occupied; once it holds a Piece it
\* holds the same Piece in every later state.
C4_CellsNeverMutate ==
    [][\A i \in Cells : board[i] # None => board'[i] = board[i]]_vars

\* C4 witness: after a successful placement a later call, on the same cell
\* with another piece, has been made.
C4_Witness ==
    /\ calls = MaxCalls
    /\ Cardinality(Occupied) = 1
    /\ index # <<>>
    /\ index[1] \in Occupied
    /\ board[index[1]] # Placed(call)

\* C5: every placement call ends with Ok, Err(OutOfBounds) or Err(Occupied)
\* and never aborts: the index it computes is below 16 and its u8
\* arithmetic does not overflow.
C5_NeverAborts ==
    call # NoCall =>
        /\ result \in {"Ok", "OutOfBounds", "Occupied"}
        /\ \A j \in DOMAIN index : index[j] < BoardLen

---------------------------------------------------------------------------
(* Properties of rotations() and patterns(), under SpecPatterns            *)

\* C6: rotations() returns a non-empty set of distinct Patterns whose size
\* is 1, 2, 4 or 8: exactly 4 for Well and exactly 8 for TradingPost.
C6_RotationCount ==
    pc # "start" =>
        /\ orient # {}
        /\ Cardinality(orient) \in {1, 2, 4, 8}
        /\ building = "Well" => Cardinality(orient) = 4
        /\ building = "TradingPost" => Cardinality(orient) = 8

\* C6 witness: rotations() has returned the eight orientations of the
\* TradingPost.
C6_Witness ==
    building = "TradingPost" /\ pc = "loop" /\ Cardinality(orient) = 8

\* rotations() has just returned: the loop has not taken an orientation yet.
Returned == pc = "loop" /\ todo = orient

\* C7: the set rotations() returns contains the canonical pattern and is
\* closed under the eight transforms: run on any member, they yield the
\* same set.
C7_RotationsClosed ==
    Returned =>
        /\ pattern(building) \in orient
        /\ \A p \in orient : RotationsOf(p) = orient

\* C7 witness: rotations() has returned a set with a member of swapped
\* dimensions, other than the canonical pattern.
C7_Witness ==
    /\ pc = "done"
    /\ \E p \in orient :
        /\ p # pattern(building)
        /\ p.width = pattern(building).height
        /\ p.height = pattern(building).width
        /\ p.width # p.height

\* C8: every coordinate of every placement template lies on the board:
\* 0 <= cx < BOARD_WIDTH and 0 <= cy < BOARD_HEIGHT.
C8_TemplatesOnBoard ==
    \A i \in DOMAIN possibles : \A j \in DOMAIN possibles[i] :
        /\ possibles[i][j].c[1] \in 0..(BOARD_WIDTH - 1)
        /\ possibles[i][j].c[2] \in 0..(BOARD_HEIGHT - 1)

\* C8 witness: a template of a transposed orientation (2 wide, 3 tall)
\* reaches the far corner of the board.
C8_Witness ==
    /\ pattern(building).width = 3
    /\ \E i \in DOMAIN possibles :
        {e.c : e \in Range(possibles[i])} = {2, 3} \X {1, 2, 3}

\* The template the anchor (x, y) of the orientation p has by direct lookup.
Direct(p, x, y) ==
    {[c |-> <<x + dx, y + dy>>, r |-> p.coords[dy + 1][dx + 1]] :
        dx \in 0..(p.width - 1), dy \in 0..(p.height - 1)}

\* The anchors at which the orientation p fits on the board.
Fits(p) ==
    {a \in (0..(BOARD_WIDTH - 1)) \X (0..(BOARD_HEIGHT - 1)) :
        a[1] + (p.width - 1) < BOARD_WIDTH /\ a[2] + (p.height - 1) < BOARD_HEIGHT}

RECURSIVE FitCount(_)
\* The number of (orientation, anchor) pairs with the anchor fitting.
FitCount(ps) ==
    IF ps = {} THEN 0
    ELSE LET p == CHOOSE q \in ps : TRUE
         IN  Cardinality(Fits(p)) + FitCount(ps \ {p})

\* C10: for every orientation p of rotations(), the Vec patterns() returns
\* holds exactly one template for each anchor at which p fits and none for
\* any other; the template has p.width * p.height entries with pairwise
\* distinct coordinates, and its entry at offset (dx, dy) is
\* ((x + dx, y + dy), p.coords[dy][dx]).
C10_TemplatesAreDirectLookups ==
    pc = "done" =>
        LET want == UNION {{Direct(p, a[1], a[2]) : a \in Fits(p)} : p \in orient}
        IN  /\ {Range(possibles[i]) : i \in DOMAIN possibles} = want
            /\ Len(possibles) = FitCount(orient)
            /\ Cardinality(want) = FitCount(orient)
            /\ \A i \in DOMAIN possibles :
                /\ \E p \in orient : Len(possibles[i]) = p.width * p.height
                /\ Cardinality({e.c : e \in Range(possibles[i])})
                        = Len(possibles[i])

\* C10 witness: patterns() has finished for a building whose pattern has two
\* different rows, with six templates for each of its orientations.
C10_Witness ==
    /\ pc = "done"
    /\ building = "TradingPost"
    /\ Len(possibles) = 48

---------------------------------------------------------------------------
(* Property of the round trip, under SpecRoundTrip                         *)

\* C9: placing the cubes a template of patterns() requires, in order, on a
\* fresh board: every place_piece call returns Ok, and afterwards
\* get_piece(cx, cy) = Cube(r) for each entry ((cx, cy), Some(r)) placed.
C9_RoundTrip ==
    /\ call # NoCall => result = "Ok"
    /\ \A j \in 1..k :
        tmpl[j].r # "None"
            => get_piece(tmpl[j].c[1], tmpl[j].c[2]) = Cube(tmpl[j].r)

\* C9 witness: a whole template with a gap has been placed.
C9_Witness ==
    /\ k = Len(tmpl)
    /\ k = 6
    /\ \E j \in 1..k : tmpl[j].r = "None"
    /\ result = "Ok"
    /\ Cardinality(Occupied) = 5

===========================================================================
